---- MODULE Spec2Model ----
(***************************************************************************)
(* A model of src/client/lazy-app/util/index.ts (squoosh): the helpers     *)
(* sniffMimeType, shallowEqual, konami, transitionHeight, abortable,       *)
(* canDecodeImageType and builtinDecode.  Every run exercises one of them  *)
(* (the variable callee); the others stay in their initial state.          *)
(***************************************************************************)
EXTENDS Integers, Sequences, FiniteSets, TLC

VARIABLES
  callee,            \* the function of the module this run exercises
  blob,              \* sniffMimeType: the blob of the first call
  mime,              \* sniffMimeType: the result of the first call
  blobB,             \* sniffMimeType: the blob of a second call
  mimeB,             \* sniffMimeType: the result of the second call
  one,               \* shallowEqual: its first argument
  two,               \* shallowEqual: its second argument
  eq,                \* shallowEqual: its result
  script,            \* konami: the keydown events the user will produce
  delivered,         \* konami: how many of them have been dispatched
  rollingPattern,    \* konami: the listener's rollingPattern, a digit string
  keydownListeners,  \* konami: 'keydown' listeners of the call on window
  konamiP,           \* konami: the returned promise
  thInner,           \* transitionHeight: the promise created at line 391
  thP,               \* transitionHeight: the returned promise
  thListeners,       \* transitionHeight: event types el has the listener for
  elHeight,          \* transitionHeight: el.style.height
  elTransition,      \* transitionHeight: el.style.transition
  sigAborted,        \* the AbortSignal: signal.aborted
  abortListeners,    \* the AbortSignal: abortable calls whose 'abort' listener
                     \*   is registered, in registration order
  abortPhase,        \* where builtinDecode was when the abort event fired
  wrapped,           \* abortable: the promise passed in, per call
  abortP,            \* abortable: the promise created at line 430, per call
  raceP,             \* abortable: the promise of Promise.race, per call
  retP,              \* abortable: the promise the async function returned
  adopted,           \* abortable: whether retP has subscribed to raceP
  callSignal,        \* abortable: the signal's state when the call was made
  first,             \* abortable: which came first, the abort event or the
                     \*   settlement of the wrapped promise
  microtasks,        \* the microtask (promise job) queue
  bdPc,              \* builtinDecode: the await it is suspended at
  supported,         \* builtinDecode: the promise of WebCodecs.isTypeSupported
  bdP,               \* builtinDecode: the returned promise
  wcStarted,         \* builtinDecode: WebCodecs.decode has been called
  fbStarted,         \* builtinDecode: createImageBitmap / blobToImg was called
  bdCaught,          \* builtinDecode: what the catch at line 250 swallowed
  bdThrownAt,        \* builtinDecode: the statement that rejected it
  canDecodeCache,    \* canDecodeImageType: the cache, type -> promise id
  probes,            \* canDecodeImageType: the promises of the probes started
  returned           \* canDecodeImageType: the calls made, with their results

sniffVars == <<blob, mime, blobB, mimeB>>
equalVars == <<one, two, eq>>
konamiVars == <<script, delivered, rollingPattern, keydownListeners, konamiP>>
transitionVars == <<thInner, thP, thListeners, elHeight, elTransition>>
sigVars == <<sigAborted, abortListeners, abortPhase>>
abVars == <<wrapped, abortP, raceP, retP, adopted, callSignal, first>>
syncVars == <<sniffVars, equalVars, konamiVars, transitionVars>>
bdVars == <<bdPc, supported, bdP, wcStarted, fbStarted, bdCaught, bdThrownAt>>
cacheVars == <<canDecodeCache, probes, returned>>
asyncVars == <<sigVars, abVars, microtasks, bdVars, cacheVars>>
vars == <<callee, syncVars, asyncVars>>

Min(a, b) == IF a < b THEN a ELSE b

Bytes == 0..255

(***************************************************************************)
(* sniffMimeType                                                           *)
(***************************************************************************)

\* A regular expression of the table is a sequence of atoms: "one" matches a
\* single character of the set s, "star" matches any number of them.
Lit(str) == [i \in DOMAIN str |-> [k |-> "one", s |-> {str[i]}]]
AnyOf(set) == <<[k |-> "one", s |-> set]>>
Star(c) == <<[k |-> "star", s |-> {c}]>>

\* The characters a "." of a JavaScript regular expression (no s flag) does
\* not match, among the code points 0..255: \n and \r.
LineTerminators == {10, 13}
RegexDot == Bytes \ LineTerminators

\* The table, with the set a wildcard position ranges over as a parameter.
MagicTable(dot) ==
  << [re |-> Lit(<<37, 80, 68, 70, 45>>), type |-> "application/pdf"],
     [re |-> Lit(<<71, 73, 70, 56, 55, 97>>), type |-> "image/gif"],
     [re |-> Lit(<<71, 73, 70, 56, 57, 97>>), type |-> "image/gif"],
     [re |-> Lit(<<137, 80, 78, 71, 13, 10, 26, 10>>), type |-> "image/png"],
     [re |-> Lit(<<255, 216, 255>>), type |-> "image/jpeg"],
     [re |-> Lit(<<66, 77>>), type |-> "image/bmp"],
     [re |-> Lit(<<73, 32, 73>>), type |-> "image/tiff"],
     [re |-> Lit(<<73>>) \o Star(73), type |-> "image/tiff"],
     [re |-> Lit(<<77, 77>>) \o Star(0), type |-> "image/tiff"],
     [re |-> Lit(<<82, 73, 70, 70>>) \o AnyOf(dot) \o AnyOf(dot) \o AnyOf(dot)
               \o AnyOf(dot) \o Lit(<<87, 69, 66, 80, 86, 80, 56>>)
               \o AnyOf({76, 88, 32}),
      type |-> "image/webp"],
     [re |-> Lit(<<244, 255, 111>>), type |-> "image/webp2"],
     [re |-> Lit(<<0, 0, 0, 32, 102, 116, 121, 112, 97, 118, 105, 102, 0, 0, 0, 0>>),
      type |-> "image/avif"],
     [re |-> Lit(<<255, 10>>), type |-> "image/jxl"],
     [re |-> Lit(<<0, 0, 0, 12, 74, 88, 76, 32, 13, 10, 135, 10>>),
      type |-> "image/jxl"] >>

magicNumberMapInput == MagicTable(RegexDot)

ImageMimeTypes == {magicNumberMapInput[i].type : i \in DOMAIN magicNumberMapInput}

\* RegExp.prototype.test for a pattern anchored with ^: atoms re[i..] match a
\* prefix of str[j..].
RECURSIVE MatchFrom(_, _, _, _)
MatchFrom(re, i, str, j) ==
  IF i > Len(re) THEN TRUE
  ELSE IF re[i].k = "one"
       THEN j <= Len(str) /\ str[j] \in re[i].s /\ MatchFrom(re, i + 1, str, j + 1)
       ELSE \/ MatchFrom(re, i + 1, str, j)
            \/ j <= Len(str) /\ str[j] \in re[i].s /\ MatchFrom(re, i, str, j + 1)

RegexTest(re, str) == MatchFrom(re, 1, str, 1)

\* Blob.prototype.slice(start, end): the end is clamped to the blob's size.
BlobSlice(b, start, end) == SubSeq(b, start + 1, Min(end, Len(b)))

SliceEnd == 16

\* firstChunk; FirstChunkOffByOne is the faulty slice(1, 17).
FirstChunkOffByOne(b) == BlobSlice(b, 1, SliceEnd + 1)
FirstChunk(b) == BlobSlice(b, 0, SliceEnd)

\* String.fromCodePoint(v) for a byte v: the one-character string whose code
\* point is v; characters are written as their code points.
FromCodePoint(v) == v
FirstChunkString(b) == [i \in DOMAIN FirstChunk(b) |-> FromCodePoint(FirstChunk(b)[i])]

\* The type of the first entry of table from index i on whose detector
\* matches str, "" when none does.
RECURSIVE FirstMatch(_, _, _)
FirstMatch(table, i, str) ==
  IF i > Len(table) THEN ""
  ELSE IF RegexTest(table[i].re, str) THEN table[i].type
       ELSE FirstMatch(table, i + 1, str)

sniffMimeType(b) == FirstMatch(magicNumberMapInput, 1, FirstChunkString(b))

\* ---- the blobs sniffed ----

\* One instance of every signature of the table, in table order.
Seeds ==
  { <<37, 80, 68, 70, 45>>, <<71, 73, 70, 56, 55, 97>>, <<71, 73, 70, 56, 57, 97>>,
    <<137, 80, 78, 71, 13, 10, 26, 10>>, <<255, 216, 255>>, <<66, 77>>,
    <<73, 32, 73>>, <<73, 73, 42, 0>>, <<77, 77, 0, 42>>,
    <<82, 73, 70, 70, 36, 0, 0, 0, 87, 69, 66, 80, 86, 80, 56, 32>>,
    <<244, 255, 111>>,
    <<0, 0, 0, 32, 102, 116, 121, 112, 97, 118, 105, 102, 0, 0, 0, 0>>,
    <<255, 10>>, <<0, 0, 0, 12, 74, 88, 76, 32, 13, 10, 135, 10>> }

\* RIFF containers: one of the four size bytes ranges over every byte value.
RiffBlob(pos, w, tag) ==
  <<82, 73, 70, 70>> \o [i \in 1..4 |-> IF i = pos THEN w ELSE 0]
    \o <<87, 69, 66, 80, 86, 80, 56, tag>>
RiffBlobs ==
  {RiffBlob(pos, w, 32) : pos \in 1..4, w \in Bytes}
    \cup {RiffBlob(1, 36, tag) : tag \in {76, 88, 32, 65}}

MaxTail == 2
TailBytes == {0, 255}
Tails == UNION {[1..n -> TailBytes] : n \in 1..MaxTail}

\* A signature followed by zero bytes up to 16 bytes.
Padded(sig) == sig \o [i \in 1..(SliceEnd - Len(sig)) |-> 0]

Blobs ==
  {<<>>, <<0, 0, 0, 0>>}
    \cup Seeds
    \cup {Padded(s) : s \in Seeds}
    \cup RiffBlobs
    \cup {s \o t : s \in Seeds, t \in Tails}
    \cup {SubSeq(s, 1, Len(s) - 1) : s \in Seeds}
    \cup {<<j>> \o s : j \in TailBytes, s \in Seeds}
    \cup UNION {{[s EXCEPT ![i] = (s[i] + 1) % 256] : i \in 1..Min(3, Len(s))} : s \in Seeds}

InitSniff ==
  /\ blob = <<>> /\ mime = "unsniffed"
  /\ blobB = <<>> /\ mimeB = "unsniffed"

\* sniffMimeType(b), first call.
Sniff ==
  /\ callee = "sniffMimeType"
  /\ mime = "unsniffed"
  /\ \E b \in Blobs :
       /\ blob' = b
       /\ mime' = sniffMimeType(b)
  /\ UNCHANGED <<callee, blobB, mimeB, equalVars, konamiVars, transitionVars, asyncVars>>

\* sniffMimeType on a second blob that has the first one's first 16 bytes and
\* other bytes after them.
SniffOther ==
  /\ callee = "sniffMimeType"
  /\ mime /= "unsniffed" /\ mimeB = "unsniffed"
  /\ Len(blob) >= SliceEnd
  /\ \E t \in Tails \cup {<<>>} :
       /\ blobB' = SubSeq(blob, 1, SliceEnd) \o t
       /\ mimeB' = sniffMimeType(blobB')
  /\ UNCHANGED <<callee, blob, mime, equalVars, konamiVars, transitionVars, asyncVars>>

NextSniff == Sniff \/ SniffOther

(***************************************************************************)
(* shallowEqual                                                            *)
(***************************************************************************)

\* Plain objects: the own enumerable properties, as a function from the keys
\* present to their values.  "undefined" and "NaN" are the JavaScript values.
Keys == {"a", "b"}
Values == {"undefined", "NaN", "x", "y"}
Objects == UNION {[ks -> Values] : ks \in SUBSET Keys}

\* obj[i]: undefined when the object has no property i.
Get(obj, i) == IF i \in DOMAIN obj THEN obj[i] ELSE "undefined"

\* x !== y: NaN is unequal to itself.
StrictNotEqual(x, y) == x /= y \/ x = "NaN"

\* i in obj
HasProperty(obj, i) == i \in DOMAIN obj

shallowEqual(o1, o2) ==
  IF \E i \in DOMAIN o1 : StrictNotEqual(o1[i], Get(o2, i)) THEN FALSE
  ELSE IF \E i \in DOMAIN o2 : ~HasProperty(o1, i) THEN FALSE
  ELSE TRUE

\* A boolean result, written so that it can share a variable with "uncalled".
BoolStr(b) == IF b THEN "true" ELSE "false"

InitEqual == one = <<>> /\ two = <<>> /\ eq = "uncalled"

\* shallowEqual(o1, o2) on any two objects.
ShallowEqual ==
  /\ callee = "shallowEqual"
  /\ eq = "uncalled"
  /\ \E o1 \in Objects, o2 \in Objects :
       /\ one' = o1 /\ two' = o2
       /\ eq' = BoolStr(shallowEqual(o1, o2))
  /\ UNCHANGED <<callee, sniffVars, konamiVars, transitionVars, asyncVars>>

NextEqual == ShallowEqual

(***************************************************************************)
(* konami                                                                  *)
(***************************************************************************)

\* The decimal digits of a key code: what "rollingPattern += event.keyCode"
\* appends.
RECURSIVE Digits(_)
Digits(n) == IF n < 10 THEN <<n>> ELSE Digits(n \div 10) \o <<n % 10>>

\* '38384040373937396665'
expectedPattern == <<3, 8, 3, 8, 4, 0, 4, 0, 3, 7, 3, 9, 3, 7, 3, 9, 6, 6, 6, 5>>

\* str.slice(-n)
SliceLast(str, n) == IF Len(str) <= n THEN str ELSE SubSeq(str, Len(str) - n + 1, Len(str))

\* rollingPattern after the listener has handled a keydown of keyCode.
Roll(pattern, keyCode) == SliceLast(pattern \o Digits(keyCode), Len(expectedPattern))

\* The key codes of up up down down left right left right B A.
KonamiCode == <<38, 38, 40, 40, 37, 39, 37, 39, 66, 65>>

\* The key sequences tried: the code with at most one key replaced by any key
\* code, or by the keys whose codes are its digits, after up to MaxPrefix more
\* presses of "up", and one more key after it.
MaxPrefix == 1
KeyCodes == 0..255
Scripts ==
  {[i \in 1..n |-> 38] \o [KonamiCode EXCEPT ![j] = k] \o <<65>> :
     n \in 0..MaxPrefix, j \in DOMAIN KonamiCode, k \in KeyCodes}
  \cup
  {SubSeq(KonamiCode, 1, j - 1) \o Digits(KonamiCode[j])
     \o SubSeq(KonamiCode, j + 1, Len(KonamiCode)) : j \in DOMAIN KonamiCode}

InitKonami ==
  /\ script = <<>> /\ delivered = 0
  /\ rollingPattern = <<>>
  /\ keydownListeners = 0
  /\ konamiP = "none"

\* konami(): the listener is registered, the promise returned is pending.
KonamiCall ==
  /\ callee = "konami"
  /\ konamiP = "none"
  /\ konamiP' = "pending"
  /\ rollingPattern' = <<>>
  /\ keydownListeners' = keydownListeners + 1
  /\ script' \in Scripts
  /\ delivered' = 0
  /\ UNCHANGED <<callee, sniffVars, equalVars, transitionVars, asyncVars>>

\* A keydown event on window; the listener runs if it is registered.
KeyDown ==
  /\ callee = "konami"
  /\ konamiP /= "none"
  /\ delivered < Len(script)
  /\ delivered' = delivered + 1
  /\ IF keydownListeners > 0
     THEN /\ rollingPattern' = Roll(rollingPattern, script[delivered + 1])
          /\ IF rollingPattern' = expectedPattern
             THEN /\ keydownListeners' = keydownListeners - 1
                  /\ konamiP' = "resolved"
             ELSE UNCHANGED <<keydownListeners, konamiP>>
     ELSE UNCHANGED <<rollingPattern, keydownListeners, konamiP>>
  /\ UNCHANGED <<callee, script, sniffVars, equalVars, transitionVars, asyncVars>>

NextKonami == KonamiCall \/ KeyDown

(***************************************************************************)
(* transitionHeight                                                        *)
(***************************************************************************)

Heights == {0, 100}
Durations == {0, 1000}

InitTransition ==
  /\ thInner = "none" /\ thP = "none"
  /\ thListeners = {}
  /\ elHeight = "auto" /\ elTransition = ""

\* transitionHeight(el, {from, to, duration}) up to its return.
TransitionHeightCall ==
  /\ callee = "transitionHeight"
  /\ thP = "none"
  /\ \E from \in Heights, to \in Heights, duration \in Durations :
       IF from = to \/ duration = 0
       THEN /\ elHeight' = to
            /\ thP' = "resolved"
            /\ UNCHANGED <<thInner, thListeners, elTransition>>
       ELSE /\ elHeight' = to
            /\ elTransition' = "height"
            /\ thListeners' = thListeners \cup {"transitionend", "transitioncancel"}
            /\ thInner' = "pending"
            /\ thP' = "pending"
  /\ UNCHANGED <<callee, sniffVars, equalVars, konamiVars, asyncVars>>

\* A transitionend or transitioncancel event reaches el, from el itself or
\* bubbling from a descendant; the listener runs if registered for the type.
TransitionEvent ==
  /\ callee = "transitionHeight"
  /\ thP /= "none"
  /\ \E type \in {"transitionend", "transitioncancel"}, target \in {"el", "child"} :
       /\ type \in thListeners
       /\ IF target /= "el"
          THEN UNCHANGED <<thInner, thListeners, elTransition>>
          ELSE /\ elTransition' = ""
               /\ thListeners' = thListeners \ {"transitionend", "transitioncancel"}
               /\ thInner' = "resolved"
  /\ UNCHANGED <<callee, thP, elHeight, sniffVars, equalVars, konamiVars, asyncVars>>

\* The promise of the async function follows the promise it returned.
TransitionSettle ==
  /\ callee = "transitionHeight"
  /\ thP = "pending" /\ thInner = "resolved"
  /\ thP' = "resolved"
  /\ UNCHANGED <<callee, thInner, thListeners, elHeight, elTransition,
                 sniffVars, equalVars, konamiVars, asyncVars>>

NextTransition == TransitionHeightCall \/ TransitionEvent \/ TransitionSettle

(***************************************************************************)
(* assertSignal, abortable and the promise jobs they queue                 *)
(***************************************************************************)

\* The abortable calls of a run: in a run of builtinDecode, 1 is the call at
\* line 249 (WebCodecs decode) and 2 the call at line 255 (fallback decode).
Inst == {1, 2}

Settled(p) == p \notin {"none", "unstarted", "pending"}

Job(kind, i) == [job |-> kind, i |-> i]

\* assertSignal(signal) throws: exactly when signal.aborted.
\* AssertSignalNeverThrows is the faulty variant without the check.
AssertSignalNeverThrows(aborted) == FALSE
assertSignal(aborted) == aborted

\* A resolving function of a promise: it settles a pending promise and does
\* nothing to a settled one.  SettleAlways is the faulty variant that settles
\* a promise again.
SettleAlways(p, outcome) == outcome
SettleOnce(p, outcome) == IF p = "pending" THEN outcome ELSE p

\* What the reaction Promise.race registered on one of its two elements
\* settles the race with.  RaceOutcomeFulfilsAlways is the faulty variant that
\* turns a rejection of the wrapped promise into a fulfilment.
RaceOutcomeFulfilsAlways(i, src) == IF src = "wrapped" THEN "value" ELSE "abortError"
RaceOutcome(i, src) == IF src = "wrapped" THEN wrapped[i] ELSE "abortError"

InitAsync ==
  /\ sigAborted = FALSE
  /\ abortListeners = <<>>
  /\ abortPhase = "none"
  /\ wrapped = [i \in Inst |-> IF callee = "abortable" THEN "pending" ELSE "unstarted"]
  /\ abortP = [i \in Inst |-> "none"]
  /\ raceP = [i \in Inst |-> "none"]
  /\ retP = [i \in Inst |-> "none"]
  /\ adopted = [i \in Inst |-> FALSE]
  /\ callSignal = [i \in Inst |-> "uncalled"]
  /\ first = [i \in Inst |-> "none"]
  /\ microtasks = <<>>

\* The body of abortable(signal, promise) for call i, where w is the state of
\* the promise passed, q the job queue as the call starts and awaited tells
\* whether the caller awaits the result (builtinDecode does): it sets every
\* variable of abVars, abortListeners and microtasks.
AbortableBody(i, w, q, awaited) ==
  IF assertSignal(sigAborted)
  THEN /\ retP' = [retP EXCEPT ![i] = "abortError"]
       /\ callSignal' = [callSignal EXCEPT ![i] = "aborted"]
       /\ wrapped' = [wrapped EXCEPT ![i] = w]
       /\ microtasks' = q \o (IF awaited THEN <<Job("bdResume", i)>> ELSE <<>>)
       /\ UNCHANGED <<abortP, raceP, adopted, first, abortListeners>>
  ELSE /\ abortP' = [abortP EXCEPT ![i] = "pending"]
       /\ abortListeners' = Append(abortListeners, i)
       /\ raceP' = [raceP EXCEPT ![i] = "pending"]
       /\ retP' = [retP EXCEPT ![i] = "pending"]
       /\ callSignal' = [callSignal EXCEPT ![i] = IF sigAborted THEN "aborted" ELSE "live"]
       /\ wrapped' = [wrapped EXCEPT ![i] = w]
       /\ microtasks' = q \o (IF Settled(w) THEN <<Job("raceWrapped", i)>> ELSE <<>>)
                           \o <<Job("thenable", i)>>
       /\ UNCHANGED <<adopted, first>>

\* abortable(signal, promise), called by the environment.
AbortableCall ==
  /\ callee = "abortable"
  /\ \E i \in Inst :
       /\ callSignal[i] = "uncalled"
       /\ AbortableBody(i, wrapped[i], microtasks, FALSE)
  /\ UNCHANGED <<callee, syncVars, sigAborted, abortPhase, bdVars, cacheVars>>

\* Where builtinDecode is as the abort event fires.
PhaseNow ==
  CASE bdPc = "idle" -> "beforeCall"
    [] bdPc = "awaitSupport" -> "supportCheck"
    [] bdPc = "awaitWc" /\ wrapped[1] = "pending" -> "wcPending"
    [] bdPc = "awaitWc" /\ wrapped[1] = "opError" -> "wcFailed"
    [] bdPc = "awaitWc" /\ wrapped[1] = "value" -> "wcFulfilled"
    [] bdPc = "awaitFb" -> "fallback"
    [] OTHER -> "done"

\* The jobs the 'abort' listeners queue: each rejects its promise of line
\* 430, whose reaction settles the race.
AbortJobs == [n \in DOMAIN abortListeners |-> Job("raceAbort", abortListeners[n])]

\* The abort event fires on the signal: signal.aborted becomes true and every
\* registered listener runs.  No listener is ever removed.
AbortSignal ==
  /\ callee \in {"abortable", "builtinDecode"}
  /\ ~sigAborted
  /\ sigAborted' = TRUE
  /\ abortPhase' = PhaseNow
  /\ abortP' = [i \in Inst |-> SettleOnce(abortP[i], "abortError")]
  /\ microtasks' = microtasks \o AbortJobs
  /\ first' = [i \in Inst |-> IF first[i] = "none" THEN "abort" ELSE first[i]]
  /\ UNCHANGED <<callee, syncVars, abortListeners, wrapped, raceP, retP, adopted,
                 callSignal, bdVars, cacheVars>>

\* The wrapped promise of call i settles: it fulfils or rejects with an error
\* of the wrapped operation.
WrappedSettle ==
  /\ callee \in {"abortable", "builtinDecode"}
  /\ \E i \in Inst, outcome \in {"value", "opError"} :
       /\ wrapped[i] = "pending"
       /\ wrapped' = [wrapped EXCEPT ![i] = outcome]
       /\ microtasks' = microtasks \o
            (IF raceP[i] /= "none" THEN <<Job("raceWrapped", i)>> ELSE <<>>)
       /\ first' = [first EXCEPT ![i] = IF @ = "none" THEN "settle" ELSE @]
  /\ UNCHANGED <<callee, syncVars, sigVars, abortP, raceP, retP, adopted,
                 callSignal, bdVars, cacheVars>>

HeadIs(kinds) == microtasks /= <<>> /\ Head(microtasks).job \in kinds

\* Job: a reaction of Promise.race runs, for the wrapped promise or for the
\* promise of line 430.
RaceReaction ==
  /\ HeadIs({"raceWrapped", "raceAbort"})
  /\ LET i == Head(microtasks).i
         src == IF Head(microtasks).job = "raceWrapped" THEN "wrapped" ELSE "abort"
     IN /\ raceP' = [raceP EXCEPT ![i] = SettleOnce(@, RaceOutcome(i, src))]
        /\ microtasks' = Tail(microtasks) \o
             (IF raceP[i] = "pending" /\ adopted[i] THEN <<Job("retReact", i)>> ELSE <<>>)
  /\ UNCHANGED <<callee, syncVars, sigVars, wrapped, abortP, retP, adopted,
                 callSignal, first, bdVars, cacheVars>>

\* Job: the promise of the async function abortable subscribes to the race
\* promise it returned.
ThenableJob ==
  /\ HeadIs({"thenable"})
  /\ LET i == Head(microtasks).i
     IN /\ adopted' = [adopted EXCEPT ![i] = TRUE]
        /\ microtasks' = Tail(microtasks) \o
             (IF Settled(raceP[i]) THEN <<Job("retReact", i)>> ELSE <<>>)
  /\ UNCHANGED <<callee, syncVars, sigVars, wrapped, abortP, raceP, retP,
                 callSignal, first, bdVars, cacheVars>>

\* builtinDecode is suspended at the await of abortable call i.
BdAwaits(i) == (bdPc = "awaitWc" /\ i = 1) \/ (bdPc = "awaitFb" /\ i = 2)

\* Job: the promise abortable returned settles as the race did.
RetReaction ==
  /\ HeadIs({"retReact"})
  /\ LET i == Head(microtasks).i
     IN /\ retP' = [retP EXCEPT ![i] = SettleOnce(@, raceP[i])]
        /\ microtasks' = Tail(microtasks) \o
             (IF BdAwaits(i) THEN <<Job("bdResume", i)>> ELSE <<>>)
  /\ UNCHANGED <<callee, syncVars, sigVars, wrapped, abortP, raceP, adopted,
                 callSignal, first, bdVars, cacheVars>>

NextAbortable ==
  AbortableCall \/ AbortSignal \/ WrappedSettle \/ RaceReaction \/ ThenableJob \/ RetReaction

InitBuiltinDecode ==
  /\ bdPc = "idle" /\ supported = "none" /\ bdP = "none"
  /\ wcStarted = FALSE /\ fbStarted = FALSE
  /\ bdCaught = "none" /\ bdThrownAt = "none"

\* builtinDecode(signal, blob, mimeType) up to its first await.
BuiltinDecodeCall ==
  /\ callee = "builtinDecode"
  /\ bdPc = "idle"
  /\ bdPc' = "awaitSupport"
  /\ supported' = "pending"
  /\ bdP' = "pending"
  /\ UNCHANGED <<callee, syncVars, sigVars, abVars, microtasks, wcStarted, fbStarted,
                 bdCaught, bdThrownAt, cacheVars>>

\* WebCodecs.isTypeSupported(mimeType) answers; builtinDecode's continuation
\* is queued.
SupportSettle ==
  /\ callee = "builtinDecode"
  /\ supported = "pending"
  /\ supported' \in {"true", "false"}
  /\ microtasks' = Append(microtasks, Job("bdResume", 0))
  /\ UNCHANGED <<callee, syncVars, sigVars, abVars, bdPc, bdP, wcStarted, fbStarted,
                 bdCaught, bdThrownAt, cacheVars>>

\* builtinDecode ends: it returns result, or throws it at statement at.
BdFinish(q, result, at) ==
  /\ bdPc' = "done"
  /\ bdP' = result
  /\ bdThrownAt' = at
  /\ microtasks' = q
  /\ UNCHANGED <<abVars, abortListeners>>

\* assertSignal(signal) at line 252 throws.  AssertBeforeFallbackOmitted is
\* builtinDecode without that statement.
AssertBeforeFallbackOmitted == FALSE
AssertBeforeFallback == assertSignal(sigAborted)

\* Lines 252-258: the check of the signal, then the fallback decode is
\* started and raced against the signal.
FallbackStep(q) ==
  IF AssertBeforeFallback
  THEN /\ BdFinish(q, "abortError", "assert252")
       /\ UNCHANGED <<wcStarted, fbStarted>>
  ELSE /\ fbStarted' = TRUE
       /\ AbortableBody(2, "pending", q, TRUE)
       /\ bdPc' = "awaitFb"
       /\ UNCHANGED <<bdP, bdThrownAt, wcStarted>>

\* Job: builtinDecode resumes after the await it is suspended at and runs to
\* its next await or to its end.
BdResume ==
  /\ HeadIs({"bdResume"})
  /\ LET q == Tail(microtasks)
     IN CASE bdPc = "awaitSupport" ->
               IF supported = "true"
               THEN IF assertSignal(sigAborted)
                    THEN /\ BdFinish(q, "abortError", "assert247")
                         /\ UNCHANGED <<wcStarted, fbStarted, bdCaught>>
                    ELSE /\ wcStarted' = TRUE
                         /\ AbortableBody(1, "pending", q, TRUE)
                         /\ bdPc' = "awaitWc"
                         /\ UNCHANGED <<bdP, bdThrownAt, fbStarted, bdCaught>>
               ELSE FallbackStep(q) /\ UNCHANGED bdCaught
          [] bdPc = "awaitWc" ->
               IF retP[1] = "value"
               THEN /\ BdFinish(q, "imageData", "none")
                    /\ UNCHANGED <<wcStarted, fbStarted, bdCaught>>
               ELSE /\ bdCaught' = retP[1]
                    /\ FallbackStep(q)
          [] bdPc = "awaitFb" ->
               /\ IF retP[2] = "value"
                  THEN \/ BdFinish(q, "imageData", "none")
                       \/ BdFinish(q, "canvasError", "drawableToImageData")
                  ELSE BdFinish(q, retP[2], "abortable255")
               /\ UNCHANGED <<wcStarted, fbStarted, bdCaught>>
  /\ UNCHANGED <<callee, syncVars, sigAborted, abortPhase, supported, cacheVars>>

NextDecode ==
  \/ BuiltinDecodeCall \/ SupportSettle \/ BdResume
  \/ AbortSignal \/ WrappedSettle \/ RaceReaction \/ ThenableJob \/ RetReaction

InitCache ==
  /\ canDecodeCache = <<>> /\ probes = <<>> /\ returned = <<>>

(***************************************************************************)
(* canDecodeImageType                                                      *)
(***************************************************************************)

Types == {"image/avif", "image/webp", "image/jxl"}
MaxCalls == 4

\* canDecodeCache.has(type); CacheHasNever is a cache that is never hit.
CacheHasNever(type) == FALSE
CacheHas(type) == type \in DOMAIN canDecodeCache

\* canDecodeCache.set(type, promise): the cache after it.
CacheSet(type, promise) ==
  [t \in DOMAIN canDecodeCache \cup {type} |->
     IF t = type THEN promise ELSE canDecodeCache[t]]

\* canDecodeImageType(type): a probe is started and cached when the cache has
\* no entry for the type; the cached promise is returned.
CanDecodeImageType ==
  /\ callee = "canDecodeImageType"
  /\ Len(returned) < MaxCalls
  /\ \E type \in Types :
       /\ IF ~CacheHas(type)
          THEN /\ probes' = Append(probes, "pending")
               /\ canDecodeCache' = CacheSet(type, Len(probes) + 1)
               /\ microtasks' = Append(microtasks, Job("probeResume", Len(probes) + 1))
          ELSE UNCHANGED <<probes, canDecodeCache, microtasks>>
       /\ returned' = Append(returned, [type |-> type, promise |-> canDecodeCache'[type]])
  /\ UNCHANGED <<callee, syncVars, sigVars, abVars, bdVars>>

\* Job: a probe resumes after "await 0" and returns !!img.currentSrc, whatever
\* the browser put there.
ProbeResume ==
  /\ HeadIs({"probeResume"})
  /\ \E answer \in {"true", "false"} :
       probes' = [probes EXCEPT ![Head(microtasks).i] = answer]
  /\ microtasks' = Tail(microtasks)
  /\ UNCHANGED <<callee, syncVars, sigVars, abVars, bdVars, canDecodeCache, returned>>

NextCache == CanDecodeImageType \/ ProbeResume

InitAll ==
  /\ InitSniff /\ InitEqual /\ InitKonami /\ InitTransition
  /\ InitAsync /\ InitBuiltinDecode /\ InitCache

\* A run that exercises function f.
InitFor(f) == callee = f /\ InitAll

InitSniffRun == InitFor("sniffMimeType")
InitEqualRun == InitFor("shallowEqual")

InitKonamiRun == InitFor("konami")
InitAbortableRun == InitFor("abortable")

InitDecodeRun == InitFor("builtinDecode")
InitListenersRun == callee \in {"konami", "transitionHeight", "abortable"} /\ InitAll

NextListeners ==
  \/ KonamiCall \/ KeyDown
  \/ TransitionHeightCall \/ TransitionEvent \/ TransitionSettle
  \/ AbortableCall \/ AbortSignal \/ WrappedSettle
  \/ RaceReaction \/ ThenableJob \/ RetReaction

InitCacheRun == InitFor("canDecodeImageType")

SpecCache == InitCacheRun /\ [][NextCache]_vars
SpecDecode == InitDecodeRun /\ [][NextDecode]_vars
SpecListeners == InitListenersRun /\ [][NextListeners]_vars
SpecAbortable == InitAbortableRun /\ [][NextAbortable]_vars

SpecKonami == InitKonamiRun /\ [][NextKonami]_vars

SpecSniff == InitSniffRun /\ [][NextSniff]_vars
SpecEqual == InitEqualRun /\ [][NextEqual]_vars

(***************************************************************************)
(* Properties                                                              *)
(***************************************************************************)

\* The signatures as the table is read: every wildcard position of the WEBP
\* signature ranges over every byte value.
Signatures == MagicTable(Bytes)

\* C1: sniffMimeType returns the type of the first signature of the table,
\* in table order, that the blob's leading bytes are an instance of (the WEBP
\* wildcards ranging over 0..255), and "" when they are an instance of none.
C1_FirstSignatureInTableOrder ==
  mime /= "unsniffed" => mime = FirstMatch(Signatures, 1, blob)

\* C2: the result is a type of the table or "", also for blobs shorter than
\* 16 bytes, and two blobs with the same first 16 bytes get the same result.
C2_OnlyFirst16Bytes ==
  /\ mime /= "unsniffed" => mime \in ImageMimeTypes \cup {""}
  /\ mimeB /= "unsniffed" =>
       /\ BlobSlice(blobB, 0, SliceEnd) = BlobSlice(blob, 0, SliceEnd)
       /\ mimeB = mime

\* C2's case: two blobs of an image type that differ after byte 16.
C2_Witness ==
  /\ mimeB = "image/avif"
  /\ Len(blobB) > SliceEnd /\ Len(blob) > SliceEnd
  /\ blobB /= blob

\* C7: shallowEqual is true exactly when the two objects have the same
\* properties with strictly equal values, a property whose value is undefined
\* included; so it is symmetric.
C7_SamePropertiesAndValues ==
  eq /= "uncalled" =>
    /\ eq = BoolStr(/\ DOMAIN one = DOMAIN two
                    /\ \A i \in DOMAIN one : ~StrictNotEqual(one[i], two[i]))
    /\ eq = BoolStr(shallowEqual(two, one))

\* keys contains the ten key codes of the konami code as consecutive events.
ContainsKonamiCode(keys) ==
  \E i \in 1..Len(keys) :
    /\ i + Len(KonamiCode) - 1 <= Len(keys)
    /\ SubSeq(keys, i, i + Len(KonamiCode) - 1) = KonamiCode

\* C8: the promise of konami() is resolved exactly when the keydown events
\* delivered since the call contain the ten key codes of the konami code as
\* consecutive events.
C8_ResolvedIffKonamiCode ==
  konamiP /= "none" =>
    (konamiP = "resolved" <=> ContainsKonamiCode(SubSeq(script, 1, delivered)))

\* Call i has left nothing behind: no listener on the signal, no race, no job.
NothingStarted(i) ==
  /\ \A n \in DOMAIN abortListeners : abortListeners[n] /= i
  /\ abortP[i] = "none" /\ raceP[i] = "none"
  /\ \A n \in DOMAIN microtasks : microtasks[n].i /= i

\* C3: abortable called with an aborted signal is rejected with the
\* AbortError from the call on, whatever the wrapped promise does, and has
\* registered no listener and started no race.
C3_AbortedSignalRejectsAtOnce ==
  \A i \in Inst :
    callSignal[i] = "aborted" => retP[i] = "abortError" /\ NothingStarted(i)

\* C3's case: the call is rejected while the wrapped promise is pending.
C3_Witness ==
  \E i \in Inst :
    callSignal[i] = "aborted" /\ wrapped[i] = "pending" /\ retP[i] = "abortError"

\* C4: while the signal has not been aborted, the promise abortable returned
\* is pending or settled as the wrapped promise is, it is pending while the
\* wrapped promise is, and once the jobs have run it is settled as the
\* wrapped promise is.
C4_NeverAbortedMirrorsWrapped ==
  \A i \in Inst :
    (callSignal[i] = "live" /\ ~sigAborted) =>
      /\ retP[i] \in {"pending", wrapped[i]}
      /\ wrapped[i] = "pending" => retP[i] = "pending"
      /\ (Settled(wrapped[i]) /\ microtasks = <<>>) => retP[i] = wrapped[i]

\* C4's case: the wrapped promise rejected and so did the returned one.
C4_Witness ==
  \E i \in Inst :
    /\ callSignal[i] = "live" /\ ~sigAborted
    /\ wrapped[i] = "opError" /\ retP[i] = "opError"

\* What a call made with a live signal must settle with: the AbortError when
\* the abort event came first, the wrapped promise's outcome when that came
\* first.
FirstOutcome(i) == IF first[i] = "abort" THEN "abortError" ELSE wrapped[i]

\* C5: for a call made with a signal not yet aborted, the returned promise
\* settles only after one of the two has happened, with the outcome of the one
\* that happened first, and once settled never changes.
C5_FirstWinsOnce ==
  /\ [](\A i \in Inst :
          (callSignal[i] = "live" /\ Settled(retP[i])) =>
            first[i] /= "none" /\ retP[i] = FirstOutcome(i))
  /\ [][\A i \in Inst : Settled(retP[i]) => retP'[i] = retP[i]]_vars

\* C5's case: the abort came first, the wrapped promise fulfilled later, and
\* the returned promise is rejected with the AbortError.
C5_Witness ==
  \E i \in Inst :
    /\ callSignal[i] = "live" /\ first[i] = "abort"
    /\ wrapped[i] = "value" /\ retP[i] = "abortError"
    /\ microtasks = <<>>

QueriedTypes == {returned[n].type : n \in DOMAIN returned}

\* C6: as many probes have been started as distinct types were queried, all
\* calls for a type got the same promise, and a cache entry never changes.
C6_OneProbePerType ==
  /\ [](/\ Len(probes) = Cardinality(QueriedTypes)
        /\ DOMAIN canDecodeCache = QueriedTypes
        /\ \A m, n \in DOMAIN returned :
             returned[m].type = returned[n].type => returned[m].promise = returned[n].promise)
  /\ [][\A t \in DOMAIN canDecodeCache :
          t \in DOMAIN canDecodeCache' /\ canDecodeCache'[t] = canDecodeCache[t]]_vars

\* C6's case: a type queried again while its probe is pending, among queries
\* for another type.
C6_Witness ==
  \E m, n \in DOMAIN returned :
    /\ m < n /\ returned[m].type = returned[n].type
    /\ probes[returned[n].promise] = "pending"
    /\ Cardinality(QueriedTypes) > 1

\* C9: once the promise of konami, of transitionHeight or of abortable has
\* settled, no listener that call registered is still subscribed.
C9_NoListenerAfterSettle ==
  /\ konamiP = "resolved" => keydownListeners = 0
  /\ thP = "resolved" => thListeners = {}
  /\ \A i \in Inst :
       Settled(retP[i]) => \A n \in DOMAIN abortListeners : abortListeners[n] /= i

\* C10 as claimed: whenever the abort event fired before builtinDecode had
\* started the fallback decode or ended, the fallback decode is never started
\* and builtinDecode ends rejected with the AbortError.
C10_AbortBeforeFallbackAlwaysRejects ==
  abortPhase \in {"beforeCall", "supportCheck", "wcPending", "wcFailed", "wcFulfilled"} =>
    /\ ~fbStarted
    /\ bdPc = "done" => bdP = "abortError"

\* C10: when the abort event fired before the fallback decode was started
\* and before a WebCodecs decode had fulfilled, the fallback decode is never
\* started and builtinDecode can only reject with the AbortError; when it
\* fired while the WebCodecs decode was pending, the catch swallowed an
\* AbortError and the assertSignal of line 252 raised it again; and after the
\* catch swallowed another error with the signal not aborted, the fallback
\* decode has been started.
C10_AbortBeforeFallback ==
  /\ abortPhase \in {"beforeCall", "supportCheck", "wcPending", "wcFailed"} =>
       /\ ~fbStarted
       /\ bdP \in {"none", "pending", "abortError"}
       /\ bdPc = "done" => bdP = "abortError"
  /\ (abortPhase = "wcPending" /\ bdPc = "done") =>
       bdCaught = "abortError" /\ bdThrownAt = "assert252"
  /\ (bdCaught = "opError" /\ ~sigAborted) => fbStarted

\* C10's case: the abort fired while the WebCodecs decode was pending and
\* builtinDecode has rejected.
C10_Witness ==
  abortPhase = "wcPending" /\ bdPc = "done" /\ bdP = "abortError" /\ ~fbStarted

====
